---- MODULE Spec2Model ----
(***************************************************************************)
(* LectureGenie (src/app.py): transcribe an audio file, summarise the      *)
(* transcript and generate practice questions on two thread pools, write   *)
(* the combined report to lecture_summary.txt and return the four values.  *)
(*                                                                         *)
(* Text is a sequence of one-character strings; a fixed header or prompt   *)
(* literal of the source is one element.  The three pretrained models are  *)
(* deterministic stubs that may also raise.  Each browser session runs     *)
(* process_audio; Spec has one session, SpecRace two concurrent ones,      *)
(* SpecChunk applies the chunking expression to arbitrary short strings.   *)
(***************************************************************************)
EXTENDS Integers, Sequences, FiniteSets, TLC

\* ------------------------------------------------------------------ bounds
\* Audio paths are 0..MaxAudio; path a transcribes to TLen(a) characters.
MaxAudio == 5
\* Audio paths the two concurrent sessions of SpecRace upload.
MaxRaceAudio == 1
\* Audio paths uploaded in SpecTwice.
MaxTwiceAudio == 3
\* SpecChunk: strings up to MaxLen characters, chunk sizes 1..MaxK.
MaxLen == 4
MaxK == 3

\* --------------------------------------------------------------- constants
\* text[i:i+1024] for i in range(0, len(text), 1024)
ChunkSize == 1024
\* num_return_sequences=3
NumReturnSequences == 3

FilePath == "lecture_summary.txt"
\* The three section headers of line 58; each is one element of the text, and
\* the emoji that starts it in the source is left out of the literal.
HdrTranscription == "Transcription:\n"
HdrSummary == "Summary:\n"
HdrQuestions == "Practice Questions:\n"
PromptPrefix == "You are an AI tutor. ... Passage:\n"
NL == "\n"
SP == " "
\* A byte of a file hole (a write past the end of a truncated file).
NUL == "NUL"

Procs == {"s1", "s2"}
Alphabet == <<"a", "b", "c">>
\* A local name that is not bound yet.
Unbound == <<"<unbound>">>
NoRet == <<>>
\* ref before the first run has completed, and ref when no run is recorded
NoRef == [audio |-> -1, ret |-> <<>>, file |-> <<>>]
Untracked == [audio |-> -2, ret |-> <<>>, file |-> <<>>]

Min(a, b) == IF a < b THEN a ELSE b
Max(a, b) == IF a > b THEN a ELSE b

\* ------------------------------------------------------------ pure helpers
\* len(range(0, n, k))
RangeLen(n, k) == (n + k - 1) \div k

\* range(0, n, k) as the sequence of its values
Range0(n, k) == [j \in 1..RangeLen(n, k) |-> (j - 1) * k]

\* s[i:j] for 0 <= i <= j (the end is clamped to len(s))
Slice(s, i, j) == SubSeq(s, i + 1, Min(j, Len(s)))

\* A chunker that forgets the short last chunk: range(0, len(s) - k + 1, k).
ChunkerDropTail(s, k) ==
    LET r == Range0(Max(Len(s) - k + 1, 0), k)
    IN  [j \in 1..Len(r) |-> Slice(s, r[j], r[j] + k)]

\* [text[i:i+k] for i in range(0, len(text), k)]
Chunker(s, k) ==
    LET r == Range0(Len(s), k)
    IN  [j \in 1..Len(r) |-> Slice(s, r[j], r[j] + k)]

RECURSIVE JoinTrailing(_, _)
\* A join that also puts the separator after the last part.
JoinTrailing(parts, sep) ==
    IF parts = <<>> THEN <<>>
    ELSE Head(parts) \o <<sep>> \o JoinTrailing(Tail(parts), sep)

RECURSIVE JoinWith(_, _)
\* sep.join(parts)
JoinWith(parts, sep) ==
    IF parts = <<>> THEN <<>>
    ELSE IF Len(parts) = 1 THEN Head(parts)
    ELSE Head(parts) \o <<sep>> \o JoinWith(Tail(parts), sep)

\* ------------------------------------------------------------- model stubs
Char(i) == Alphabet[(i % 3) + 1]
TLen(a) == (a \div 2) * ChunkSize + (a % 2)

\* whisper_model.transcribe(audio_path)["text"]
Whisper(a) == [i \in 1..TLen(a) |-> Char(i + a)]

\* summarizer(text_chunks, ...): one {'summary_text': ...} per chunk
Bart(chunks) == [j \in 1..Len(chunks) |-> [summary_text |-> <<"S", chunks[j][1]>>]]

\* the f-string of line 34
Prompt(chunk) == <<PromptPrefix>> \o chunk

\* question_generator(prompt, num_return_sequences=3): 3 candidates
Flan(prompt) ==
    [i \in 1..NumReturnSequences |-> [generated_text |-> <<"Q", prompt[2], ToString(i)>>]]

\* [s['summary_text'] for s in summaries]
SummaryTexts(summaries) == [j \in 1..Len(summaries) |-> summaries[j].summary_text]

\* summarize_text(text)
SummarizeText(text) == JoinWith(SummaryTexts(Bart(Chunker(text, ChunkSize))), SP)

\* [q['generated_text'] for q in generated]
CandidateTexts(generated) == [i \in 1..Len(generated) |-> generated[i].generated_text]

\* questions.append(first candidate) instead of extend(all candidates)
AppendFirst(qs, texts) == qs \o <<texts[1]>>

\* questions.extend(texts)
Extend(qs, texts) == qs \o texts

\* combined_text of line 58
FormatReport(t, s, q) ==
    <<HdrTranscription>> \o t \o <<NL, NL, HdrSummary>> \o s
        \o <<NL, NL, HdrQuestions>> \o q

\* ------------------------------------------------------------- file system
\* A write of data at byte offset pos of a file holding f.
WriteAt(f, pos, data) ==
    LET n == Len(data)
        m == Max(Len(f), pos + n)
    IN  [i \in 1..m |-> IF i > pos /\ i <= pos + n THEN data[i - pos]
                        ELSE IF i <= Len(f) THEN f[i] ELSE NUL]

\* open(path, "r+"): the old content stays.
OpenKeep(f) == f

\* open(path, "w"): the file is truncated to length 0.
OpenTruncate(f) == <<>>

\* ------------------------------------------------------------------- state
VARIABLES
    sessions,    \* the browser sessions that submit
    paths,       \* the audio paths they upload
    main,        \* per session: where process_audio's thread is
    audio,       \* per session: audio_path
    transcript,  \* per session: the local of line 50
    summary,     \* per session: the local of line 55
    questions,   \* per session: the local of line 56
    tSt, tRes,   \* transcribe_future: state and result
    sSt, sRes, sArg,   \* summarize_future: state, result, argument
    qSt, qRes, qArg,   \* questions_future: state, result, argument
    qpc,         \* where generate_questions is
    qIdx,        \* index of the future the loop of line 41 is at
    qList,       \* the list `questions` of generate_questions
    wSt, wRes,   \* future_questions: state and result of each chunk's task
    exc,         \* the exception process_audio is raising / has raised
    fh,          \* per session: the open file object f
    file,        \* content of lecture_summary.txt
    fileExists,
    ret,         \* per session: what process_audio returned
    \* history (not program state)
    qOrigin,     \* the chunk each element of qList came from
    order,       \* the chunk tasks in the order they completed
    calls,       \* model calls made by the invocation
    fileBefore,  \* the file when the invocation started
    ref,         \* the first completed run: its input and outcome
    \* SpecChunk
    cs, ck, cchunks, cdone

taskVars == <<tSt, tRes, sSt, sRes, sArg, qSt, qRes, qArg>>
qVars == <<qpc, qIdx, qList, wSt, wRes, qOrigin, order>>
localVars == <<transcript, summary, questions>>
fileVars == <<fh, file, fileExists>>
cfgVars == <<sessions, paths>>
chunkVars == <<cs, ck, cchunks, cdone>>
vars == <<cfgVars, main, audio, localVars, taskVars, qVars, exc, fileVars, ret,
          calls, fileBefore, ref, chunkVars>>

NoCalls == [t |-> 0, s |-> 0, q |-> <<>>]
NoHandle == [open |-> FALSE, pos |-> 0, buf |-> <<>>]

InitCommon ==
    /\ main = [p \in Procs |-> "idle"]
    /\ audio = [p \in Procs |-> 0]
    /\ transcript = [p \in Procs |-> Unbound]
    /\ summary = [p \in Procs |-> Unbound]
    /\ questions = [p \in Procs |-> Unbound]
    /\ tSt = [p \in Procs |-> "none"] /\ tRes = [p \in Procs |-> Unbound]
    /\ sSt = [p \in Procs |-> "none"] /\ sRes = [p \in Procs |-> Unbound]
    /\ sArg = [p \in Procs |-> Unbound]
    /\ qSt = [p \in Procs |-> "none"] /\ qRes = [p \in Procs |-> Unbound]
    /\ qArg = [p \in Procs |-> Unbound]
    /\ qpc = [p \in Procs |-> "none"]
    /\ qIdx = [p \in Procs |-> 0]
    /\ qList = [p \in Procs |-> <<>>]
    /\ wSt = [p \in Procs |-> <<>>] /\ wRes = [p \in Procs |-> <<>>]
    /\ exc = [p \in Procs |-> "none"]
    /\ fh = [p \in Procs |-> NoHandle]
    /\ file = <<>> /\ fileExists = FALSE
    /\ ret = [p \in Procs |-> NoRet]
    /\ qOrigin = [p \in Procs |-> <<>>]
    /\ order = [p \in Procs |-> <<>>]
    /\ calls = [p \in Procs |-> NoCalls]
    /\ fileBefore = [p \in Procs |-> <<FALSE, <<>>>>]

Init ==
    /\ InitCommon
    /\ sessions = {"s1"} /\ paths = 0..MaxAudio
    /\ ref = Untracked
    /\ cs = <<>> /\ ck = 1 /\ cchunks = <<>> /\ cdone = FALSE

InitTwice ==
    /\ InitCommon
    /\ sessions = {"s1"} /\ paths = 0..MaxTwiceAudio
    /\ ref = NoRef
    /\ cs = <<>> /\ ck = 1 /\ cchunks = <<>> /\ cdone = FALSE

InitRace ==
    /\ InitCommon
    /\ sessions = Procs /\ paths = 0..MaxRaceAudio
    /\ ref = Untracked
    /\ cs = <<>> /\ ck = 1 /\ cchunks = <<>> /\ cdone = FALSE

\* ---------------------------------------------------- futures and pools
\* Both executors have the default size (at least 5 threads), so every task
\* of an invocation with up to 4 chunks runs as soon as it is submitted.
\* future.result() that does not block
NeverBlocks(st) == TRUE

\* future.result() returns or raises once the task has finished
FutureReady(st) == st \in {"done", "failed"}

\* an executor shut down with wait=False
ShutdownNoWait(p) == TRUE

\* ThreadPoolExecutor.__exit__ of line 48: shutdown(wait=True) returns once
\* no submitted task is still running
PoolIdle(p) == tSt[p] # "running" /\ sSt[p] # "running" /\ qSt[p] # "running"

\* the inner executor's __exit__ (line 30)
WorkersIdle(p) == \A j \in 1..Len(wSt[p]) : wSt[p][j] # "running"

\* as_completed(future_questions): the i-th future to complete (0: none yet)
FutureAsCompleted(p, i) == IF i <= Len(order[p]) THEN order[p][i] ELSE 0

\* `for future in future_questions`: the i-th future submitted
FutureAt(p, i) == i

\* generate_questions' chunks
QChunks(p) == Chunker(qArg[p], ChunkSize)

\* a failed result that is swallowed
NeverRaises(st) == FALSE

\* future.result() re-raises the task's exception
ResultRaises(st) == st = "failed"

\* the argument of lines 52 and 53
TaskArg(p) == transcript[p]

\* ----------------------------------------------------------------- actions
\* process_audio is left: its locals, its executor and the futures are gone
FrameGone(p) ==
    /\ transcript' = [transcript EXCEPT ![p] = Unbound]
    /\ summary' = [summary EXCEPT ![p] = Unbound]
    /\ questions' = [questions EXCEPT ![p] = Unbound]
    /\ tSt' = [tSt EXCEPT ![p] = "none"]
    /\ tRes' = [tRes EXCEPT ![p] = Unbound]
    /\ sSt' = [sSt EXCEPT ![p] = "none"]
    /\ sRes' = [sRes EXCEPT ![p] = Unbound]
    /\ sArg' = [sArg EXCEPT ![p] = Unbound]
    /\ qSt' = [qSt EXCEPT ![p] = "none"]
    /\ qRes' = [qRes EXCEPT ![p] = Unbound]
    /\ qArg' = [qArg EXCEPT ![p] = Unbound]
    /\ qpc' = [qpc EXCEPT ![p] = "none"]
    /\ qIdx' = [qIdx EXCEPT ![p] = 0]
    /\ qList' = [qList EXCEPT ![p] = <<>>]
    /\ wSt' = [wSt EXCEPT ![p] = <<>>]
    /\ wRes' = [wRes EXCEPT ![p] = <<>>]
    /\ qOrigin' = [qOrigin EXCEPT ![p] = <<>>]
    /\ order' = [order EXCEPT ![p] = <<>>]
    /\ calls' = [calls EXCEPT ![p] = NoCalls]

\* gradio_interface -> process_audio(audio): lines 47-49
Start(p, a) ==
    /\ p \in sessions /\ a \in paths
    /\ main[p] \in {"idle", "returned", "raised"}
    /\ main' = [main EXCEPT ![p] = "l50"]
    /\ audio' = [audio EXCEPT ![p] = a]
    /\ tSt' = [tSt EXCEPT ![p] = "running"]
    /\ exc' = [exc EXCEPT ![p] = "none"]
    /\ ret' = [ret EXCEPT ![p] = NoRet]
    /\ fileBefore' = [fileBefore EXCEPT ![p] = <<fileExists, file>>]
    /\ UNCHANGED <<cfgVars, localVars, tRes, sSt, sRes, sArg, qSt, qRes, qArg, qVars,
                   calls, fileVars, ref, chunkVars>>

\* transcribe_audio returns (lines 14-17)
TranscribeOk(p) ==
    /\ tSt[p] = "running"
    /\ tSt' = [tSt EXCEPT ![p] = "done"]
    /\ tRes' = [tRes EXCEPT ![p] = Whisper(audio[p])]
    /\ calls' = [calls EXCEPT ![p].t = @ + 1]
    /\ UNCHANGED <<cfgVars, main, audio, localVars, sSt, sRes, sArg, qSt, qRes, qArg,
                   qVars, exc, fileVars, ret, fileBefore, ref, chunkVars>>

\* whisper_model.transcribe raises
TranscribeFail(p) ==
    /\ tSt[p] = "running"
    /\ tSt' = [tSt EXCEPT ![p] = "failed"]
    /\ calls' = [calls EXCEPT ![p].t = @ + 1]
    /\ UNCHANGED <<cfgVars, main, audio, localVars, tRes, sSt, sRes, sArg, qSt, qRes, qArg,
                   qVars, exc, fileVars, ret, fileBefore, ref, chunkVars>>

\* transcript = transcribe_future.result()   (line 50)
AwaitTranscript(p) ==
    /\ main[p] = "l50"
    /\ FutureReady(tSt[p])
    /\ IF ResultRaises(tSt[p])
       THEN /\ exc' = [exc EXCEPT ![p] = "transcribe"]
            /\ main' = [main EXCEPT ![p] = "unwind"]
            /\ UNCHANGED transcript
       ELSE /\ transcript' = [transcript EXCEPT ![p] = tRes[p]]
            /\ main' = [main EXCEPT ![p] = "l52"]
            /\ UNCHANGED exc
    /\ UNCHANGED <<cfgVars, audio, summary, questions, taskVars, qVars, fileVars, ret,
                   calls, fileBefore, ref, chunkVars>>

\* summarize_future = executor.submit(summarize_text, transcript)   (line 52)
SubmitSummarize(p) ==
    /\ main[p] = "l52"
    /\ sArg' = [sArg EXCEPT ![p] = TaskArg(p)]
    /\ sSt' = [sSt EXCEPT ![p] = "running"]
    /\ main' = [main EXCEPT ![p] = "l53"]
    /\ UNCHANGED <<cfgVars, audio, localVars, tSt, tRes, sRes, qSt, qRes, qArg, qVars, exc,
                   fileVars, ret, calls, fileBefore, ref, chunkVars>>

\* questions_future = executor.submit(generate_questions, transcript)   (line 53)
SubmitQuestions(p) ==
    /\ main[p] = "l53"
    /\ qArg' = [qArg EXCEPT ![p] = TaskArg(p)]
    /\ qSt' = [qSt EXCEPT ![p] = "running"]
    /\ qpc' = [qpc EXCEPT ![p] = "l27"]
    /\ main' = [main EXCEPT ![p] = "l55"]
    /\ UNCHANGED <<cfgVars, audio, localVars, tSt, tRes, sSt, sRes, sArg, qRes,
                   qIdx, qList, wSt, wRes, qOrigin, order, exc,
                   fileVars, ret, calls, fileBefore, ref, chunkVars>>

\* summarize_text returns (lines 19-23)
SummarizeOk(p) ==
    /\ sSt[p] = "running"
    /\ sSt' = [sSt EXCEPT ![p] = "done"]
    /\ sRes' = [sRes EXCEPT ![p] = SummarizeText(sArg[p])]
    /\ calls' = [calls EXCEPT ![p].s = @ + 1]
    /\ UNCHANGED <<cfgVars, main, audio, localVars, tSt, tRes, sArg, qSt, qRes, qArg,
                   qVars, exc, fileVars, ret, fileBefore, ref, chunkVars>>

\* the summarizer raises (line 22)
SummarizeFail(p) ==
    /\ sSt[p] = "running"
    /\ sSt' = [sSt EXCEPT ![p] = "failed"]
    /\ calls' = [calls EXCEPT ![p].s = @ + 1]
    /\ UNCHANGED <<cfgVars, main, audio, localVars, tSt, tRes, sRes, sArg, qSt, qRes, qArg,
                   qVars, exc, fileVars, ret, fileBefore, ref, chunkVars>>

\* generate_questions: chunk, then submit one task per chunk (lines 27-39)
QSubmitWorkers(p) ==
    /\ qSt[p] = "running" /\ qpc[p] = "l27"
    /\ LET n == Len(QChunks(p)) IN
         /\ wSt' = [wSt EXCEPT ![p] = [j \in 1..n |-> "running"]]
         /\ wRes' = [wRes EXCEPT ![p] = [j \in 1..n |-> <<>>]]
         /\ calls' = [calls EXCEPT ![p].q = [j \in 1..n |-> 0]]
    /\ qList' = [qList EXCEPT ![p] = <<>>]
    /\ qIdx' = [qIdx EXCEPT ![p] = 1]
    /\ qpc' = [qpc EXCEPT ![p] = "l41"]
    /\ UNCHANGED <<cfgVars, main, audio, localVars, taskVars, qOrigin, order, exc,
                   fileVars, ret, fileBefore, ref, chunkVars>>

\* the task of chunk j returns the model's candidates (lines 33-36)
WorkerOk(p, j) ==
    /\ j \in 1..Len(wSt[p]) /\ wSt[p][j] = "running"
    /\ wSt' = [wSt EXCEPT ![p][j] = "done"]
    /\ wRes' = [wRes EXCEPT ![p][j] = Flan(Prompt(QChunks(p)[j]))]
    /\ order' = [order EXCEPT ![p] = Append(@, j)]
    /\ calls' = [calls EXCEPT ![p].q[j] = @ + 1]
    /\ UNCHANGED <<cfgVars, main, audio, localVars, taskVars, qpc, qIdx, qList, qOrigin,
                   exc, fileVars, ret, fileBefore, ref, chunkVars>>

\* the task of chunk j raises
WorkerFail(p, j) ==
    /\ j \in 1..Len(wSt[p]) /\ wSt[p][j] = "running"
    /\ wSt' = [wSt EXCEPT ![p][j] = "failed"]
    /\ order' = [order EXCEPT ![p] = Append(@, j)]
    /\ calls' = [calls EXCEPT ![p].q[j] = @ + 1]
    /\ UNCHANGED <<cfgVars, main, audio, localVars, taskVars, qpc, qIdx, qList, wRes,
                   qOrigin, exc, fileVars, ret, fileBefore, ref, chunkVars>>

\* one iteration of `for future in future_questions` (lines 41-43)
QCollect(p) ==
    /\ qSt[p] = "running" /\ qpc[p] = "l41"
    /\ qIdx[p] <= Len(wSt[p])
    /\ LET f == FutureAt(p, qIdx[p]) IN
         /\ f \in 1..Len(wSt[p])
         /\ FutureReady(wSt[p][f])
         /\ IF ResultRaises(wSt[p][f])
            THEN /\ qpc' = [qpc EXCEPT ![p] = "unwind"]
                 /\ UNCHANGED <<qIdx, qList, qOrigin>>
            ELSE /\ qList' = [qList EXCEPT ![p] = Extend(@, CandidateTexts(wRes[p][f]))]
                 /\ qOrigin' = [qOrigin EXCEPT
                       ![p] = @ \o [i \in 1..(Len(qList'[p]) - Len(qList[p])) |-> f]]
                 /\ qIdx' = [qIdx EXCEPT ![p] = @ + 1]
                 /\ UNCHANGED qpc
    /\ UNCHANGED <<cfgVars, main, audio, localVars, taskVars, wSt, wRes, order, exc,
                   fileVars, ret, calls, fileBefore, ref, chunkVars>>

\* the loop is over: leave the with block, return "\n".join(questions) (line 45)
QReturn(p) ==
    /\ qSt[p] = "running" /\ qpc[p] = "l41"
    /\ qIdx[p] > Len(wSt[p])
    /\ WorkersIdle(p)
    /\ qRes' = [qRes EXCEPT ![p] = JoinWith(qList[p], NL)]
    /\ qSt' = [qSt EXCEPT ![p] = "done"]
    /\ qpc' = [qpc EXCEPT ![p] = "done"]
    /\ order' = [order EXCEPT ![p] = <<>>]
    /\ UNCHANGED <<cfgVars, main, audio, localVars, tSt, tRes, sSt, sRes, sArg, qArg,
                   qIdx, qList, wSt, wRes, qOrigin, exc,
                   fileVars, ret, calls, fileBefore, ref, chunkVars>>

\* a task's exception leaves the with block once the other tasks have finished
QRaise(p) ==
    /\ qSt[p] = "running" /\ qpc[p] = "unwind"
    /\ WorkersIdle(p)
    /\ qSt' = [qSt EXCEPT ![p] = "failed"]
    /\ qpc' = [qpc EXCEPT ![p] = "done"]
    /\ order' = [order EXCEPT ![p] = <<>>]
    /\ UNCHANGED <<cfgVars, main, audio, localVars, tSt, tRes, sSt, sRes, sArg, qRes, qArg,
                   qIdx, qList, wSt, wRes, qOrigin, exc,
                   fileVars, ret, calls, fileBefore, ref, chunkVars>>

\* summary = summarize_future.result()   (line 55)
AwaitSummary(p) ==
    /\ main[p] = "l55"
    /\ FutureReady(sSt[p])
    /\ IF ResultRaises(sSt[p])
       THEN /\ exc' = [exc EXCEPT ![p] = "summarize"]
            /\ main' = [main EXCEPT ![p] = "unwind"]
            /\ UNCHANGED summary
       ELSE /\ summary' = [summary EXCEPT ![p] = sRes[p]]
            /\ main' = [main EXCEPT ![p] = "l56"]
            /\ UNCHANGED exc
    /\ UNCHANGED <<cfgVars, audio, transcript, questions, taskVars, qVars, fileVars, ret,
                   calls, fileBefore, ref, chunkVars>>

\* questions = questions_future.result()   (line 56); then the with block ends
AwaitQuestions(p) ==
    /\ main[p] = "l56"
    /\ FutureReady(qSt[p])
    /\ IF ResultRaises(qSt[p])
       THEN /\ exc' = [exc EXCEPT ![p] = "questions"]
            /\ main' = [main EXCEPT ![p] = "unwind"]
            /\ UNCHANGED questions
       ELSE /\ questions' = [questions EXCEPT ![p] = qRes[p]]
            /\ main' = [main EXCEPT ![p] = "l61"]
            /\ UNCHANGED exc
    /\ UNCHANGED <<cfgVars, audio, transcript, summary, taskVars, qVars, fileVars, ret,
                   calls, fileBefore, ref, chunkVars>>

\* the exception leaves `with ... as executor` (line 48) and reaches the caller
Raise(p) ==
    /\ main[p] = "unwind"
    /\ PoolIdle(p)
    /\ main' = [main EXCEPT ![p] = "raised"]
    /\ FrameGone(p)
    /\ UNCHANGED <<cfgVars, audio, exc, fileVars, ret, fileBefore, ref, chunkVars>>

\* open(file_path, "w", encoding="utf-8")   (line 61)
OpenFile(p) ==
    /\ main[p] = "l61"
    /\ file' = OpenTruncate(file)
    /\ fileExists' = TRUE
    /\ fh' = [fh EXCEPT ![p] = [open |-> TRUE, pos |-> 0, buf |-> <<>>]]
    /\ main' = [main EXCEPT ![p] = "l62"]
    /\ UNCHANGED <<cfgVars, audio, localVars, taskVars, qVars, exc, ret,
                   calls, fileBefore, ref, chunkVars>>

\* f.write(combined_text) (line 62) when the text stays in the file object's buffer
WriteBuffered(p) ==
    /\ main[p] = "l62"
    /\ fh' = [fh EXCEPT ![p].buf = @ \o FormatReport(transcript[p], summary[p], questions[p])]
    /\ main' = [main EXCEPT ![p] = "close"]
    /\ UNCHANGED <<cfgVars, audio, localVars, taskVars, qVars, exc, file, fileExists, ret,
                   calls, fileBefore, ref, chunkVars>>

\* f.write(combined_text) (line 62) when the text exceeds the buffer and is written through
WriteThrough(p) ==
    /\ main[p] = "l62"
    /\ LET data == FormatReport(transcript[p], summary[p], questions[p]) IN
         /\ file' = WriteAt(file, fh[p].pos, data)
         /\ fh' = [fh EXCEPT ![p].pos = @ + Len(data)]
    /\ main' = [main EXCEPT ![p] = "close"]
    /\ UNCHANGED <<cfgVars, audio, localVars, taskVars, qVars, exc, fileExists, ret,
                   calls, fileBefore, ref, chunkVars>>

\* a close that drops what is still buffered
CloseNoFlush(f, h) == f

\* f.close(): what is still buffered is written at the file object's offset
CloseFlush(f, h) == IF h.buf = <<>> THEN f ELSE WriteAt(f, h.pos, h.buf)

\* the `with open` block ends (f.close()) and process_audio returns (line 64)
CloseAndReturn(p) ==
    /\ main[p] = "close"
    /\ file' = CloseFlush(file, fh[p])
    /\ fh' = [fh EXCEPT ![p] = NoHandle]
    /\ ret' = [ret EXCEPT ![p] = <<transcript[p], summary[p], questions[p], FilePath>>]
    /\ main' = [main EXCEPT ![p] = "returned"]
    /\ FrameGone(p)
    /\ ref' = IF ref = NoRef
              THEN [audio |-> audio[p], ret |-> ret'[p], file |-> file']
              ELSE ref
    /\ UNCHANGED <<cfgVars, audio, exc, fileExists, fileBefore, chunkVars>>

Next ==
    \/ \E p \in sessions, a \in paths : Start(p, a)
    \/ \E p \in sessions : TranscribeOk(p)
    \/ \E p \in sessions : TranscribeFail(p)
    \/ \E p \in sessions : AwaitTranscript(p)
    \/ \E p \in sessions : SubmitSummarize(p)
    \/ \E p \in sessions : SubmitQuestions(p)
    \/ \E p \in sessions : SummarizeOk(p)
    \/ \E p \in sessions : SummarizeFail(p)
    \/ \E p \in sessions : QSubmitWorkers(p)
    \/ \E p \in sessions : \E j \in 1..Len(wSt[p]) : WorkerOk(p, j)
    \/ \E p \in sessions : \E j \in 1..Len(wSt[p]) : WorkerFail(p, j)
    \/ \E p \in sessions : QCollect(p)
    \/ \E p \in sessions : QReturn(p)
    \/ \E p \in sessions : QRaise(p)
    \/ \E p \in sessions : AwaitSummary(p)
    \/ \E p \in sessions : AwaitQuestions(p)
    \/ \E p \in sessions : Raise(p)
    \/ \E p \in sessions : OpenFile(p)
    \/ \E p \in sessions : WriteBuffered(p)
    \/ \E p \in sessions : WriteThrough(p)
    \/ \E p \in sessions : CloseAndReturn(p)

\* One browser session at a time.
Spec == Init /\ [][Next]_vars

\* One browser session at a time, the first completed run recorded in ref.
SpecTwice == InitTwice /\ [][Next]_vars

\* Two browser sessions submitting simultaneously.
SpecRace == InitRace /\ [][Next]_vars

\* --------------------------------------------------------------- SpecChunk
RECURSIVE Strings(_)
Strings(n) ==
    IF n = 0 THEN {<<>>}
    ELSE LET shorter == Strings(n - 1)
         IN  shorter \cup {Append(s, c) : s \in {x \in shorter : Len(x) = n - 1},
                                          c \in {"a", "b"}}

InitChunk ==
    /\ InitCommon
    /\ sessions = {} /\ paths = {}
    /\ ref = Untracked
    /\ \/ cs \in Strings(MaxLen) /\ ck \in 1..MaxK
       \/ cs \in {Whisper(a) : a \in 0..MaxAudio} /\ ck = ChunkSize
    /\ cchunks = <<>> /\ cdone = FALSE

\* the chunking expression of lines 21 and 27 on (cs, ck)
ApplyChunker ==
    /\ ~cdone
    /\ cchunks' = Chunker(cs, ck)
    /\ cdone' = TRUE
    /\ UNCHANGED <<cfgVars, main, audio, localVars, taskVars, qVars, exc, fileVars, ret,
                   calls, fileBefore, ref, cs, ck>>

NextChunk == ApplyChunker

SpecChunk == InitChunk /\ [][NextChunk]_vars

\* ------------------------------------------------------------------ claims
CeilDiv(n, k) == IF n % k = 0 THEN n \div k ELSE (n \div k) + 1

RECURSIVE Flatten(_)
Flatten(seqs) == IF seqs = <<>> THEN <<>> ELSE Head(seqs) \o Flatten(Tail(seqs))

RECURSIVE Lines(_)
\* the parts of s between its newlines
Lines(s) ==
    IF \A i \in 1..Len(s) : s[i] # NL THEN <<s>>
    ELSE LET i == CHOOSE x \in 1..Len(s) : s[x] = NL /\ \A y \in 1..(x - 1) : s[y] # NL
         IN  <<SubSeq(s, 1, i - 1)>> \o Lines(SubSeq(s, i + 1, Len(s)))

Count(s, c) == Cardinality({i \in 1..Len(s) : s[i] = c})

Nondecreasing(s) == \A i \in 1..Len(s) : \A j \in i..Len(s) : s[i] <= s[j]

\* the stub summary of the j-th chunk of text, and where it starts in the joined result
SegOf(text, j) == <<"S", text[(j - 1) * ChunkSize + 1]>>
RECURSIVE SegStart(_, _)
SegStart(text, j) == IF j = 1 THEN 0 ELSE SegStart(text, j - 1) + Len(SegOf(text, j - 1)) + 1

\* C1: once two concurrent invocations have both returned, the file holds
\* exactly one of the two complete reports.
C1_NoMixture ==
    (sessions = Procs /\ \A p \in Procs : main[p] = "returned")
        => \E p \in Procs : file = FormatReport(ret[p][1], ret[p][2], ret[p][3])

\* C2: whatever the order in which the chunk tasks complete, the candidates of
\* chunk i come before the candidates of chunk j in the list when i < j, each
\* element is a candidate of the chunk it is listed for, and once the loop is
\* over every chunk is there.
C2_ChunkOrder ==
    \A p \in sessions :
        /\ Len(qOrigin[p]) = Len(qList[p])
        /\ Nondecreasing(qOrigin[p])
        /\ \A m \in 1..Len(qList[p]) :
              /\ qOrigin[p][m] \in 1..Len(wSt[p])
              /\ \E i \in 1..NumReturnSequences :
                    qList[p][m] = <<"Q", qArg[p][(qOrigin[p][m] - 1) * ChunkSize + 1], ToString(i)>>
        /\ (qpc[p] \in {"l41", "done"} /\ qIdx[p] > Len(wSt[p]))
              => {qOrigin[p][m] : m \in 1..Len(qOrigin[p])} = 1..Len(wSt[p])

\* C2 witness: three chunk tasks completed in the reverse of their submission
\* order and the loop has collected all of them.
C2_Witness ==
    \E p \in sessions :
        /\ qpc[p] = "l41" /\ qIdx[p] > Len(wSt[p])
        /\ Len(order[p]) >= 3
        /\ \A i \in 1..Len(order[p]) : order[p][i] = Len(order[p]) + 1 - i
        /\ Len(qList[p]) = NumReturnSequences * Len(order[p])

\* C3: the chunks are s[0:k], s[k:2k], ...; their concatenation is s; all but
\* the last have length k; the last has length len(s) mod k, or k when k
\* divides len(s); there are ceil(len(s)/k) of them, none for the empty string.
C3_Chunker ==
    cdone =>
        LET n == Len(cchunks) IN
        /\ Flatten(cchunks) = cs
        /\ n = CeilDiv(Len(cs), ck)
        /\ (cs = <<>>) => (n = 0)
        /\ \A j \in 1..(n - 1) : Len(cchunks[j]) = ck
        /\ (n > 0) => Len(cchunks[n]) = (IF Len(cs) % ck = 0 THEN ck ELSE Len(cs) % ck)
        /\ \A j \in 1..n :
              cchunks[j] = [i \in 1..Len(cchunks[j]) |-> cs[(j - 1) * ck + i]]

\* C3 witness: a string chunked into full chunks and a shorter last one.
C3_Witness ==
    /\ cdone /\ Len(cchunks) >= 2
    /\ Len(cchunks[Len(cchunks)]) < ck

\* C4: no task is submitted, and no model call of theirs made, before the
\* transcription has completed; both tasks get the transcript it produced; and
\* both are submitted before either result is awaited.
C4_AfterTranscript ==
    \A p \in sessions :
        /\ (sSt[p] # "none" \/ qSt[p] # "none")
              => /\ tSt[p] = "done" /\ calls[p].t = 1
                 /\ tRes[p] = Whisper(audio[p])
                 /\ transcript[p] = tRes[p]
        /\ (sSt[p] # "none") => sArg[p] = transcript[p]
        /\ (qSt[p] # "none") => qArg[p] = transcript[p]
        /\ (tSt[p] # "done") => (calls[p].s = 0 /\ calls[p].q = <<>> /\ wSt[p] = <<>>)
        /\ (main[p] \in {"l55", "l56"}) => (sSt[p] # "none" /\ qSt[p] # "none")

\* C4 witness: both tasks are running at once on a multi-chunk transcript.
C4_Witness ==
    \E p \in sessions :
        /\ sSt[p] = "running" /\ qSt[p] = "running"
        /\ Len(transcript[p]) > ChunkSize

\* C5 as stated: once the summary's failure has been raised in process_audio,
\* it can reach the caller at once, whether or not the question task is done.
C5_SurfacesWithoutWaiting ==
    \A p \in sessions :
        (main[p] = "unwind" /\ exc[p] = "summarize") => ENABLED Raise(p)

\* C5 amended: while the summary's failure is being raised the questions
\* result is never consumed and the question task is never cancelled, and the
\* failure reaches the caller only when the question task has finished.
C5_SurfacesAfterQuestionTask ==
    [][\A p \in sessions :
          (main[p] = "unwind" /\ exc[p] = "summarize")
              => /\ questions[p] = Unbound
                 /\ qSt[p] \in {"running", "done", "failed"}
                 /\ (main'[p] = "raised") => qSt[p] \in {"done", "failed"}
                 /\ (main'[p] = "unwind") => qSt'[p] \in {"running", "done", "failed"}]_vars

\* C5 witness: the summary's failure is being raised while the question task,
\* with chunk tasks of its own, is still running.
C5_Witness ==
    \E p \in sessions :
        /\ main[p] = "unwind" /\ exc[p] = "summarize"
        /\ qSt[p] = "running" /\ Len(wSt[p]) >= 2

\* C6: for a transcript T of one chunk, process_audio returns
\* (T, S, "Q1\nQ2\nQ3", "lecture_summary.txt"), and when it returns the file is
\* closed and holds T, S and the questions under their headers, in that order.
C6_EndToEnd ==
    \A p \in sessions :
        (main[p] = "returned" /\ TLen(audio[p]) \in 1..ChunkSize) =>
            LET T == Whisper(audio[p])
                S == <<"S", T[1]>>
                Q == <<"Q", T[1], "1", NL, "Q", T[1], "2", NL, "Q", T[1], "3">>
            IN  /\ ret[p] = <<T, S, Q, "lecture_summary.txt">>
                /\ fileExists /\ ~fh[p].open
                /\ file = <<HdrTranscription>> \o T \o <<NL, NL>> \o <<HdrSummary>> \o S
                            \o <<NL, NL>> \o <<HdrQuestions>> \o Q

\* C6 witness: an invocation returned for a transcript of exactly one full chunk.
C6_Witness ==
    \E p \in sessions : main[p] = "returned" /\ TLen(audio[p]) = ChunkSize

\* C7: for a transcript of n chunks the model is called exactly once per chunk
\* and the result is the 3*n candidates, chunk by chunk, joined by newlines;
\* nothing for the empty transcript.
C7_AllCandidates ==
    \A p \in sessions :
        /\ \A j \in 1..Len(calls[p].q) : calls[p].q[j] <= 1
        /\ (qSt[p] = "done") =>
              LET n == CeilDiv(Len(qArg[p]), ChunkSize) IN
              /\ calls[p].q = [j \in 1..n |-> 1]
              /\ Len(qList[p]) = NumReturnSequences * n
              /\ \A j \in 1..n : \A i \in 1..NumReturnSequences :
                    qList[p][NumReturnSequences * (j - 1) + i] = wRes[p][j][i].generated_text
              /\ IF n = 0 THEN qRes[p] = <<>>
                 ELSE /\ Lines(qRes[p]) = qList[p]
                      /\ Count(qRes[p], NL) = NumReturnSequences * n - 1

\* C7 witness: the questions of a three-chunk transcript have been returned.
C7_Witness ==
    \E p \in sessions : qSt[p] = "done" /\ Len(wSt[p]) = 3 /\ Len(qList[p]) = 9

\* C8: for a transcript of n >= 1 chunks the summary is the chunks' summaries
\* in chunk order with one space between neighbours: n - 1 separators, none
\* leading or trailing; for one chunk it is that chunk's summary.
C8_SummaryJoin ==
    \A p \in sessions :
        (sSt[p] = "done" /\ Len(sArg[p]) >= 1) =>
            LET n == CeilDiv(Len(sArg[p]), ChunkSize)
                r == sRes[p]
            IN  /\ (n = 1) => r = SegOf(sArg[p], 1)
                /\ Len(r) = SegStart(sArg[p], n) + Len(SegOf(sArg[p], n))
                /\ \A j \in 1..n :
                      LET o == SegStart(sArg[p], j)
                          seg == SegOf(sArg[p], j)
                      IN  /\ SubSeq(r, o + 1, o + Len(seg)) = seg
                          /\ (j < n) => r[o + Len(seg) + 1] = SP
                /\ Count(r, SP) = n - 1
                /\ r[1] # SP /\ r[Len(r)] # SP
                /\ calls[p].s = 1

\* C8 witness: the summary of a three-chunk transcript has been produced.
C8_Witness ==
    \E p \in sessions : sSt[p] = "done" /\ Len(sArg[p]) > 2 * ChunkSize

\* C9: a run that returns for the input of the first completed run returns
\* the same tuple and leaves the same file content as that first run did,
\* whatever ran in between.
C9_Idempotent ==
    \A p \in sessions :
        (main[p] = "returned" /\ audio[p] = ref.audio)
            => (ret[p] = ref.ret /\ file = ref.file)

\* C9 witness: the first input was run again when the file held the longer
\* report of a run with another input.
C9_Witness ==
    \E p \in sessions :
        /\ main[p] = "returned" /\ audio[p] = ref.audio
        /\ Len(fileBefore[p][2]) > Len(file)

\* C10: when a stage has raised, the invocation ends by raising an error of a
\* failed stage: it never opens the file or returns a tuple, the file is as it
\* was when the invocation started, and no model is called a second time.
C10_FailLoud ==
    \A p \in sessions :
        LET stageFailed == \/ tSt[p] = "failed" \/ sSt[p] = "failed" \/ qSt[p] = "failed"
                           \/ \E j \in 1..Len(wSt[p]) : wSt[p][j] = "failed"
        IN
        /\ calls[p].t <= 1 /\ calls[p].s <= 1
        /\ \A j \in 1..Len(calls[p].q) : calls[p].q[j] <= 1
        /\ stageFailed =>
              /\ main[p] \in {"l50", "l52", "l53", "l55", "l56", "unwind"}
              /\ ret[p] = NoRet /\ ~fh[p].open
              /\ <<fileExists, file>> = fileBefore[p]
        /\ (main[p] = "unwind") =>
              /\ exc[p] = "transcribe" => tSt[p] = "failed"
              /\ exc[p] = "summarize" => sSt[p] = "failed"
              /\ exc[p] = "questions" =>
                    (qSt[p] = "failed" /\ \E j \in 1..Len(wSt[p]) : wSt[p][j] = "failed")
              /\ exc[p] \in {"transcribe", "summarize", "questions"}
        /\ (main[p] = "raised") =>
              /\ exc[p] \in {"transcribe", "summarize", "questions"}
              /\ ret[p] = NoRet
              /\ <<fileExists, file>> = fileBefore[p]

\* C10 witness: question generation raised in an invocation that started with
\* a report already on disk.
C10_Witness ==
    \E p \in sessions :
        /\ main[p] = "raised" /\ exc[p] = "questions"
        /\ fileExists /\ Len(file) > ChunkSize

====
